---- MODULE Spec2Model ----
\* Room coordinator of the buzzer app (server.ts): the in-memory registry
\* `rooms`, the session map `playerToRoom`, and the socket.io handlers
\* createRoom, joinAsHost, joinRoom, startRound, stopRound, resetRound,
\* pressBuzzer, getRoomState and disconnect.  Every handler runs to
\* completion on the single-threaded event loop, so each is one action.
EXTENDS Integers, Sequences, FiniteSets, TLC

\* ---------------------------------------------------------------- bounds
\* Largest value the clock (Date.now()) takes in the model.
MaxTime == 2
\* Longest buzzOrder the model lets pressBuzzer build.
MaxBuzz == 3

\* Connections (socket.id values).  An id is never reused after disconnect.
Sockets == {"s1", "s2", "s3"}
\* The code space of generateRoomCode (6 characters over 32 symbols in the
\* program; two codes here).
Codes == {"A", "B"}
\* Room codes as a client may send them: any case.
InputCodes == {"A", "B", "a", "b"}

\* The absent value of roundStartTime and buzzTime (null).
NULL == 0 - 1

VARIABLES
    rooms,          \* Map<string, Room>: code -> Room, over the live codes
    playerToRoom,   \* Map<string, string>: socket.id -> code
    joined,         \* socket.io adapter: socket.id -> set of channels joined
    connected,      \* the sockets whose connection is alive
    now,            \* the last value read from the clock
    out,            \* the events emitted by the last handler, in order
    presses,        \* history: code -> accepted pressBuzzer count of the round
    gen             \* createRoom's retry loop, when run step by step

vars == <<rooms, playerToRoom, joined, connected, now, out, presses, gen>>

\* ------------------------------------------------------------- Map helpers
\* A set that forgets every other key.
MapSetAlone(m, k, v) == [x \in {k} |-> v]

\* Map.prototype.set.
MapSet(m, k, v) == [x \in (DOMAIN m) \cup {k} |-> IF x = k THEN v ELSE m[x]]

\* A delete that clears the map.
MapDeleteAll(m, k) == [x \in {} |-> m[x]]

\* Map.prototype.delete.
MapDelete(m, k) == [x \in (DOMAIN m) \ {k} |-> m[x]]

EmptyMap == [x \in {} |-> NULL]

\* String.prototype.toUpperCase on the model's code strings.
ToUpperCase(rc) ==
    CASE rc = "a" -> "A"
      [] rc = "b" -> "B"
      [] OTHER -> rc

\* JavaScript's !x for a value that is null or a number.
Falsy(x) == x = NULL \/ x = 0

\* A generator that yields one code only.
GenerateStuck == {"A"}

\* generateRoomCode: any string of the code space.
GenerateRoomCode == Codes

\* Date.now(): any instant not before the last one read.
DateNow == now..MaxTime

\* ------------------------------------------------------------------ events
\* socket.emit(ev, data): to the calling socket only.
ToSocket(s, ev, data) == [ev |-> ev, to |-> {s}, data |-> data]

\* io.to(code).emit(ev, data): to every live socket that joined channel `code`.
Members(j, conn, code) == {s \in conn : code \in j[s]}

ToRoom(j, conn, code, ev, data) ==
    [ev |-> ev, to |-> Members(j, conn, code), data |-> data]

\* getRoomState: the snapshot of a room.  `players` is the collection of the
\* Player records; buzzOrder resolves the ids that are still players.
getRoomState(room) ==
    [code     |-> room.code,
     players  |-> {room.players[id] : id \in DOMAIN room.players},
     isActive |-> room.isActive,
     buzzOrder |->
        LET kept == SelectSeq(room.buzzOrder, LAMBDA id : id \in DOMAIN room.players)
        IN  [i \in 1..Len(kept) |-> room.players[kept[i]]]]

\* ---------------------------------------------------------------- Init
GenIdle == [pc |-> "idle", sock |-> "none", code |-> "none", collided |-> FALSE]

Init ==
    /\ rooms = EmptyMap
    /\ playerToRoom = EmptyMap
    /\ joined = [s \in Sockets |-> {}]
    /\ connected = Sockets
    /\ now = 1
    /\ out = <<>>
    /\ presses = [c \in Codes |-> 0]
    /\ gen = GenIdle

\* ------------------------------------------------------------ createRoom
NewRoom(code, s) ==
    [id |-> code, code |-> code, hostId |-> s, players |-> EmptyMap,
     isActive |-> FALSE, roundStartTime |-> NULL, buzzOrder |-> <<>>]

\* rooms.has(code): the retry loop's condition.
Collides(code) == code \in DOMAIN rooms

\* createRoom without its collision check.
LoopSkipped == GenerateRoomCode

\* The codes the loop `while (rooms.has(code)) code = generateRoomCode()` can
\* end with.
LoopResult == {code \in GenerateRoomCode : ~Collides(code)}

\* Lines 247-261: install the room and answer the caller.
InstallRoom(s, code) ==
    /\ rooms' = MapSet(rooms, code, NewRoom(code, s))
    /\ playerToRoom' = MapSet(playerToRoom, s, code)
    /\ joined' = [joined EXCEPT ![s] = @ \cup {code}]
    /\ out' = <<ToSocket(s, "roomCreated", [roomCode |-> code])>>
    /\ presses' = [presses EXCEPT ![code] = 0]
    /\ UNCHANGED <<connected, now>>

CreateRoom(s) ==
    /\ s \in connected
    /\ gen.pc = "idle"
    /\ \E code \in LoopResult : InstallRoom(s, code)
    /\ UNCHANGED gen

\* createRoom with its retry loop run one iteration at a time (lines 242-245),
\* the rest of the handler at the loop's exit.  Nothing else runs meanwhile:
\* every other handler waits for gen.pc = "idle".
CreateBegin(s) ==
    /\ s \in connected
    /\ gen.pc = "idle"
    /\ \E code \in GenerateRoomCode :
        gen' = [pc |-> "loop", sock |-> s, code |-> code, collided |-> FALSE]
    /\ UNCHANGED <<rooms, playerToRoom, joined, connected, now, out, presses>>

CreateRetry ==
    /\ gen.pc = "loop"
    /\ Collides(gen.code)
    /\ \E code \in GenerateRoomCode :
        gen' = [gen EXCEPT !.code = code, !.collided = TRUE]
    /\ UNCHANGED <<rooms, playerToRoom, joined, connected, now, out, presses>>

CreateInstall ==
    /\ gen.pc = "loop"
    /\ ~Collides(gen.code)
    /\ InstallRoom(gen.sock, gen.code)
    /\ gen' = [gen EXCEPT !.pc = "idle"]

\* ------------------------------------------------------------ joinAsHost
\* A rejection that also drops the caller's binding.
RoomNotFoundUnbinds(s) ==
    /\ out' = <<ToSocket(s, "error", [message |-> "Room not found"])>>
    /\ playerToRoom' = MapDelete(playerToRoom, s)
    /\ UNCHANGED <<rooms, joined, connected, now, presses, gen>>

\* A rejection announced to everybody.
RoomNotFoundBroadcast(s) ==
    /\ out' = <<[ev |-> "error", to |-> connected,
                 data |-> [message |-> "Room not found"]]>>
    /\ UNCHANGED <<rooms, playerToRoom, joined, connected, now, presses, gen>>

\* Lines 268-271 and 285-288: socket.emit("error", ...) and return.
RoomNotFound(s) ==
    /\ out' = <<ToSocket(s, "error", [message |-> "Room not found"])>>
    /\ UNCHANGED <<rooms, playerToRoom, joined, connected, now, presses, gen>>

\* A host change that also closes the round.
HostedRoomStopped(room, s) == [room EXCEPT !.hostId = s, !.isActive = FALSE]

\* Line 274: room.hostId = socket.id.
HostedRoom(room, s) == [room EXCEPT !.hostId = s]

JoinAsHost(s, roomCode) ==
    /\ s \in connected
    /\ gen.pc = "idle"
    /\ LET code == ToUpperCase(roomCode) IN
       IF code \notin DOMAIN rooms
       THEN RoomNotFound(s)
       ELSE /\ rooms' = [rooms EXCEPT ![code] = HostedRoom(@, s)]
            /\ playerToRoom' = MapSet(playerToRoom, s, code)
            /\ joined' = [joined EXCEPT ![s] = @ \cup {code}]
            /\ out' = <<ToSocket(s, "hostJoined", [roomCode |-> rooms[code].code])>>
            /\ UNCHANGED <<connected, now, presses, gen>>

\* -------------------------------------------------------------- joinRoom
JoinRoom(s, roomCode, playerName) ==
    /\ s \in connected
    /\ gen.pc = "idle"
    /\ LET code == ToUpperCase(roomCode) IN
       IF code \notin DOMAIN rooms
       THEN RoomNotFound(s)
       ELSE LET player == [id |-> s, name |-> playerName, buzzTime |-> NULL]
                room == [rooms[code] EXCEPT !.players = MapSet(@, s, player)]
                j == [joined EXCEPT ![s] = @ \cup {code}]
            IN  /\ rooms' = [rooms EXCEPT ![code] = room]
                /\ playerToRoom' = MapSet(playerToRoom, s, code)
                /\ joined' = j
                /\ out' = <<ToSocket(s, "roomJoined",
                                [roomCode |-> room.code, playerName |-> playerName]),
                            ToRoom(j, connected, room.code, "playerJoined",
                                [player |-> player]),
                            ToRoom(j, connected, room.code, "roomState",
                                getRoomState(room))>>
                /\ UNCHANGED <<connected, now, presses, gen>>

\* ------------------------------------------------- host-only round commands
\* A guard without the hostId check.
IsBoundCall(s) ==
    /\ s \in DOMAIN playerToRoom
    /\ playerToRoom[s] \in DOMAIN rooms

\* The guard shared by startRound, stopRound and resetRound (lines 308-312):
\* the caller is bound to a live room and is its hostId.
IsHostCall(s) ==
    /\ s \in DOMAIN playerToRoom
    /\ playerToRoom[s] \in DOMAIN rooms
    /\ rooms[playerToRoom[s]].hostId = s

\* A handler that returns early: nothing changes, nothing is emitted.
Dropped ==
    /\ out' = <<>>
    /\ UNCHANGED <<rooms, playerToRoom, joined, connected, now, presses, gen>>

\* A round start that forgets to clear the buzz times.
KeepBuzzTimes(players) == players

\* Lines 319-321 and 355-357: every player's buzzTime back to null.
ClearBuzzTimes(players) ==
    [id \in DOMAIN players |-> [players[id] EXCEPT !.buzzTime = NULL]]

StartedRoom(room, t) ==
    [room EXCEPT !.isActive = TRUE, !.roundStartTime = t, !.buzzOrder = <<>>,
                 !.players = ClearBuzzTimes(@)]

StartRound(s) ==
    /\ s \in connected
    /\ gen.pc = "idle"
    /\ IF ~IsHostCall(s)
       THEN Dropped
       ELSE \E t \in DateNow :
            LET roomCode == playerToRoom[s]
                room == StartedRoom(rooms[roomCode], t)
            IN  /\ rooms' = [rooms EXCEPT ![roomCode] = room]
                /\ now' = t
                /\ out' = <<ToRoom(joined, connected, roomCode, "roundStarted",
                                [startTime |-> room.roundStartTime]),
                            ToRoom(joined, connected, roomCode, "roomState",
                                getRoomState(room))>>
                /\ presses' = [presses EXCEPT ![roomCode] = 0]
                /\ UNCHANGED <<playerToRoom, joined, connected, gen>>

\* A stop that also empties buzzOrder.
StoppedRoomEmptied(room) == [room EXCEPT !.isActive = FALSE, !.buzzOrder = <<>>]

\* A stop that also forgets roundStartTime.
StoppedRoomForgets(room) == [room EXCEPT !.isActive = FALSE, !.roundStartTime = NULL]

\* Line 336: room.isActive = false.
StoppedRoom(room) == [room EXCEPT !.isActive = FALSE]

StopRound(s) ==
    /\ s \in connected
    /\ gen.pc = "idle"
    /\ IF ~IsHostCall(s)
       THEN Dropped
       ELSE LET roomCode == playerToRoom[s]
                room == StoppedRoom(rooms[roomCode])
            IN  /\ rooms' = [rooms EXCEPT ![roomCode] = room]
                /\ out' = <<ToRoom(joined, connected, roomCode, "roundStopped",
                                [none |-> TRUE]),
                            ToRoom(joined, connected, roomCode, "roomState",
                                getRoomState(room))>>
                /\ UNCHANGED <<playerToRoom, joined, connected, now, presses, gen>>

\* A reset that keeps buzzOrder.
ResetRoomKeepsOrder(room) ==
    [room EXCEPT !.isActive = FALSE, !.roundStartTime = NULL,
                 !.players = ClearBuzzTimes(@)]

\* Lines 351-357.
ResetRoom(room) ==
    [room EXCEPT !.isActive = FALSE, !.roundStartTime = NULL, !.buzzOrder = <<>>,
                 !.players = ClearBuzzTimes(@)]

ResetRound(s) ==
    /\ s \in connected
    /\ gen.pc = "idle"
    /\ IF ~IsHostCall(s)
       THEN Dropped
       ELSE LET roomCode == playerToRoom[s]
                room == ResetRoom(rooms[roomCode])
            IN  /\ rooms' = [rooms EXCEPT ![roomCode] = room]
                /\ out' = <<ToRoom(joined, connected, roomCode, "roundReset",
                                [none |-> TRUE]),
                            ToRoom(joined, connected, roomCode, "roomState",
                                getRoomState(room))>>
                /\ presses' = [presses EXCEPT ![roomCode] = 0]
                /\ UNCHANGED <<playerToRoom, joined, connected, now, gen>>

\* ------------------------------------------------------------ pressBuzzer
\* An acceptance test without the first-signal-only check.
AcceptsRepeated(s) ==
    /\ s \in DOMAIN playerToRoom
    /\ playerToRoom[s] \in DOMAIN rooms
    /\ LET room == rooms[playerToRoom[s]] IN
        /\ room.isActive
        /\ ~Falsy(room.roundStartTime)
        /\ s \in DOMAIN room.players

\* An acceptance test without the isActive check.
AcceptsInactive(s) ==
    /\ s \in DOMAIN playerToRoom
    /\ playerToRoom[s] \in DOMAIN rooms
    /\ LET room == rooms[playerToRoom[s]] IN
        /\ ~Falsy(room.roundStartTime)
        /\ s \in DOMAIN room.players
        /\ room.players[s].buzzTime = NULL

\* Lines 366-373: the press is accepted.
Accepts(s) ==
    /\ s \in DOMAIN playerToRoom
    /\ playerToRoom[s] \in DOMAIN rooms
    /\ LET room == rooms[playerToRoom[s]] IN
        /\ room.isActive
        /\ ~Falsy(room.roundStartTime)
        /\ s \in DOMAIN room.players
        /\ room.players[s].buzzTime = NULL

\* The position as it would be if the length were read before the push.
PositionBeforePush(pushed) == Len(pushed) - 1

\* Line 378: the position announced, read after the push.
Position(pushed) == Len(pushed)

\* An elapsed time that is the instant itself.
ElapsedAbsolute(t, start) == t

\* Line 375: Date.now() - room.roundStartTime.
Elapsed(t, start) == t - start

PressBuzzer(s) ==
    /\ s \in connected
    /\ gen.pc = "idle"
    /\ IF ~Accepts(s)
       THEN Dropped
       ELSE /\ Len(rooms[playerToRoom[s]].buzzOrder) < MaxBuzz
            /\ \E t \in DateNow :
               LET roomCode == playerToRoom[s]
                   old == rooms[roomCode]
                   player == [old.players[s] EXCEPT
                                !.buzzTime = Elapsed(t, old.roundStartTime)]
                   room == [old EXCEPT !.players[s] = player,
                                       !.buzzOrder = Append(@, s)]
                   position == Position(room.buzzOrder)
               IN  /\ rooms' = [rooms EXCEPT ![roomCode] = room]
                   /\ now' = t
                   /\ out' = <<ToRoom(joined, connected, roomCode, "buzzerPressed",
                                   [player |-> player, position |-> position]),
                               ToRoom(joined, connected, roomCode, "roomState",
                                   getRoomState(room))>>
                   /\ presses' = [presses EXCEPT ![roomCode] = @ + 1]
                   /\ UNCHANGED <<playerToRoom, joined, connected, gen>>

\* ----------------------------------------------------------- getRoomState
GetRoomState(s) ==
    /\ s \in connected
    /\ gen.pc = "idle"
    /\ IF s \notin DOMAIN playerToRoom \/ playerToRoom[s] \notin DOMAIN rooms
       THEN Dropped
       ELSE /\ out' = <<ToSocket(s, "roomState",
                            getRoomState(rooms[playerToRoom[s]]))>>
            /\ UNCHANGED <<rooms, playerToRoom, joined, connected, now, presses, gen>>

\* ------------------------------------------------------------- disconnect
\* A removal that forgets the leaver's arrival record.
WithoutPlayerOnly(room, s) == [room EXCEPT !.players = MapDelete(@, s)]

\* A removal that also ends the round.
WithoutPlayerStops(room, s) ==
    [room EXCEPT !.players = MapDelete(@, s),
                 !.buzzOrder = SelectSeq(@, LAMBDA id : id # s),
                 !.isActive = FALSE]

\* Lines 412-413: players.delete(socket.id) and
\* buzzOrder.filter((id) => id !== socket.id).
WithoutPlayer(room, s) ==
    [room EXCEPT !.players = MapDelete(@, s),
                 !.buzzOrder = SelectSeq(@, LAMBDA id : id # s)]

\* A test that takes every bound connection for the host.
IsHostOfAny(room, s) == TRUE

\* Line 405: room.hostId === socket.id.
IsHostOf(room, s) == room.hostId = s

\* The connection is lost: socket.io takes the socket out of every channel,
\* then runs the handler.
Disconnect(s) ==
    /\ s \in connected
    /\ gen.pc = "idle"
    /\ connected' = connected \ {s}
    /\ joined' = [joined EXCEPT ![s] = {}]
    /\ UNCHANGED <<now, presses, gen>>
    /\ IF s \notin DOMAIN playerToRoom \/ playerToRoom[s] \notin DOMAIN rooms
       THEN /\ out' = <<>>
            /\ UNCHANGED <<rooms, playerToRoom>>
       ELSE LET roomCode == playerToRoom[s] IN
            IF IsHostOf(rooms[roomCode], s)
            THEN /\ out' = <<ToRoom(joined', connected', roomCode, "error",
                                 [message |-> "Host left the room"])>>
                 /\ rooms' = MapDelete(rooms, roomCode)
                 /\ playerToRoom' = MapDelete(playerToRoom, s)
            ELSE LET room == WithoutPlayer(rooms[roomCode], s) IN
                 /\ rooms' = [rooms EXCEPT ![roomCode] = room]
                 /\ out' = <<ToRoom(joined', connected', roomCode, "playerLeft",
                                 [playerId |-> s]),
                             ToRoom(joined', connected', roomCode, "roomState",
                                 getRoomState(room))>>
                 /\ playerToRoom' = MapDelete(playerToRoom, s)

\* ------------------------------------------------------------- next-state
\* No connection is bound to anything yet: the registry is fresh.
FreshRegistry == playerToRoom = EmptyMap /\ \A s \in Sockets : joined[s] = {}

\* The life of one room.  The first command is a createRoom, whose generator
\* yields "A"; afterwards any connection issues any command that names the
\* room, in any order, until everyone has gone.
Next ==
    \/ \E s \in Sockets : FreshRegistry /\ CreateRoom(s) /\ "A" \in DOMAIN rooms'
    \/ \E s \in Sockets, rc \in {"A", "a"} : JoinAsHost(s, rc)
    \/ \E s \in Sockets, rc \in {"A", "a"} : JoinRoom(s, rc, "Mona")
    \/ \E s \in Sockets : StartRound(s)
    \/ \E s \in Sockets : StopRound(s)
    \/ \E s \in Sockets : ResetRound(s)
    \/ \E s \in Sockets : PressBuzzer(s)
    \/ \E s \in Sockets : Disconnect(s)

Spec == Init /\ [][Next]_vars

\* The registry with several rooms: any connection creates rooms, joins any
\* code as host or contestant, and disconnects, in any order.  No round is
\* run: every room stays as createRoom and the joins leave it.
NextRegistry ==
    \/ \E s \in Sockets : CreateRoom(s)
    \/ \E s \in Sockets, rc \in InputCodes : JoinAsHost(s, rc)
    \/ \E s \in Sockets, rc \in InputCodes : JoinRoom(s, rc, "Mona")
    \/ \E s \in Sockets : Disconnect(s)

SpecRegistry == Init /\ [][NextRegistry]_vars

\* createRoom's loop step by step; rooms come and go as hosts create them and
\* disconnect.
NextLive ==
    \/ \E s \in Sockets : CreateBegin(s)
    \/ CreateRetry
    \/ CreateInstall
    \/ \E s \in Sockets : Disconnect(s)

\* A retry that draws a code no live room has.
RetryFree == CreateRetry /\ ~Collides(gen'.code)

\* Math.random is fair: a free code is not avoided forever; and the event
\* loop runs the handler to its end.
LiveSpec ==
    Init /\ [][NextLive]_vars /\ WF_vars(RetryFree) /\ WF_vars(CreateInstall)

\* The life of one room between two connections that issue every command,
\* getRoomState included, in any order; the third connection only leaves.
Cast == {"s1", "s2"}

NextQuery ==
    \/ \E s \in Cast : FreshRegistry /\ CreateRoom(s) /\ "A" \in DOMAIN rooms'
    \/ \E s \in Cast, rc \in {"A", "a"} : JoinAsHost(s, rc)
    \/ \E s \in Cast, rc \in {"A", "a"} : JoinRoom(s, rc, "Mona")
    \/ \E s \in Cast : StartRound(s)
    \/ \E s \in Cast : StopRound(s)
    \/ \E s \in Cast : ResetRound(s)
    \/ \E s \in Cast : PressBuzzer(s)
    \/ \E s \in Cast : GetRoomState(s)
    \/ \E s \in Sockets : Disconnect(s)

SpecQuery == Init /\ [][NextQuery]_vars

\* A handover: s1 creates the room and is the only one to do so, s2 is the
\* only connection that issues joinAsHost.  While the room's hostId is s2 and
\* s1 is connected, s1 is the host that s2 replaced.
NextHandover ==
    \/ FreshRegistry /\ CreateRoom("s1") /\ "A" \in DOMAIN rooms'
    \/ JoinAsHost("s2", "A")
    \/ \E s \in Sockets : JoinRoom(s, "A", "Mona")
    \/ \E s \in Sockets : StartRound(s)
    \/ \E s \in Sockets : PressBuzzer(s)
    \/ \E s \in Sockets : Disconnect(s)

SpecHandover == Init /\ [][NextHandover]_vars

\* Two rooms side by side: s1 creates room A, then s2 creates room B; s3 joins
\* either room as player and takes over room B as host; everybody issues round
\* commands, presses and leaves.
NextTwoRooms ==
    \/ rooms = EmptyMap /\ CreateRoom("s1") /\ "A" \in DOMAIN rooms'
    \/ DOMAIN rooms = {"A"} /\ "s2" \notin DOMAIN playerToRoom /\ CreateRoom("s2")
    \/ \E rc \in Codes : JoinRoom("s3", rc, "Mona")
    \/ JoinAsHost("s3", "B")
    \/ \E s \in Sockets : StartRound(s)
    \/ \E s \in Sockets : StopRound(s)
    \/ \E s \in Sockets : ResetRound(s)
    \/ \E s \in Sockets : PressBuzzer(s)
    \/ \E s \in Sockets : Disconnect(s)

SpecTwoRooms == Init /\ [][NextTwoRooms]_vars

\* Display names as the characters they are made of.  The join form allows at
\* most MaxNameLen characters (maxLength) and sends playerName.trim(); the play
\* page sends the name query parameter of its address as it stands.
MaxNameLen == 20

NameInputs ==
    {<<"M">>, <<>>, <<" ">>, <<" ", "M", " ">>, [i \in 1..(MaxNameLen + 1) |-> "x"]}

\* The room "A" and joinRoom commands carrying every kind of display name.
NextNames ==
    \/ \E s \in Sockets : FreshRegistry /\ CreateRoom(s) /\ "A" \in DOMAIN rooms'
    \/ \E s \in Sockets, n \in NameInputs : JoinRoom(s, "A", n)
    \/ \E s \in Sockets : Disconnect(s)

SpecNames == Init /\ [][NextNames]_vars

\* ------------------------------------------------------- the play page
\* PlayPage's hasBuzzed and myPosition (useState(false), useState(null)).
ClientInit == [hasBuzzed |-> FALSE, myPosition |-> NULL]

\* Array.prototype.findIndex with (p) => p.name === playerName, counted from 0.
FindIndex(order, playerName) ==
    LET hits == {i \in 1..Len(order) : order[i].name = playerName}
    IN  IF hits = {} THEN 0 - 1
        ELSE (CHOOSE i \in hits : \A j \in hits : i <= j) - 1

HandleRoomState(client, state, playerName) ==
    LET myBuzz == FindIndex(state.buzzOrder, playerName)
    IN  IF myBuzz # 0 - 1
        THEN [hasBuzzed |-> TRUE, myPosition |-> myBuzz + 1]
        ELSE client

HandleRoundStarted(client) == [hasBuzzed |-> FALSE, myPosition |-> NULL]

HandleRoundReset(client) == [hasBuzzed |-> FALSE, myPosition |-> NULL]

HandleBuzzerPressed(client, data, playerName) ==
    IF data.player.name = playerName
    THEN [hasBuzzed |-> TRUE, myPosition |-> data.position]
    ELSE client

\* The page's state after the socket delivers one event to it.
Receive(client, e, playerName) ==
    CASE e.ev = "roomState" -> HandleRoomState(client, e.data, playerName)
      [] e.ev = "roundStarted" -> HandleRoundStarted(client)
      [] e.ev = "roundReset" -> HandleRoundReset(client)
      [] e.ev = "buzzerPressed" -> HandleBuzzerPressed(client, e.data, playerName)
      [] OTHER -> client

\* ----------------------------------------------------------------- claims
Range(seq) == {seq[i] : i \in 1..Len(seq)}

\* The last handler announced a buzz: buzzerPressed, then the room's snapshot.
Announced == Len(out) = 2 /\ out[1].ev = "buzzerPressed"

\* The last handler was a startRound or a resetRound of room c.
StartedOrReset(c) ==
    /\ Len(out) = 2
    /\ out[1].ev \in {"roundStarted", "roundReset"}
    /\ out[2].data.code = c

\* C1: no room's buzzOrder holds the same connection identifier twice.
NoDuplicateArrivals ==
    \A c \in DOMAIN rooms :
        \A i, j \in 1..Len(rooms[c].buzzOrder) :
            i # j => rooms[c].buzzOrder[i] # rooms[c].buzzOrder[j]

\* C2: a contestant's buzzTime is non-null exactly when its identifier is in
\* the room's buzzOrder.
ElapsedIffArrived ==
    \A c \in DOMAIN rooms :
        \A id \in DOMAIN rooms[c].players :
            (rooms[c].players[id].buzzTime # NULL) <=> (id \in Range(rooms[c].buzzOrder))

\* C3: the position announced for the N-th accepted pressBuzzer of a round is N.
RankIsNth ==
    Announced => out[1].data.position = presses[out[2].data.code]

\* C4: within a round, a contestant who stays in the room keeps its index in
\* buzzOrder across every step.
RankNeverReassigned ==
    [][\A c \in (DOMAIN rooms) \cap (DOMAIN rooms') :
        ~StartedOrReset(c)' =>
            \A i \in 1..Len(rooms[c].buzzOrder) :
                rooms[c].buzzOrder[i] \in DOMAIN rooms'[c].players =>
                    /\ i <= Len(rooms'[c].buzzOrder)
                    /\ rooms'[c].buzzOrder[i] = rooms[c].buzzOrder[i]]_vars

\* The caller is a contestant of the room it is bound to and has buzzed.
AlreadyBuzzed(s) ==
    /\ s \in DOMAIN playerToRoom
    /\ playerToRoom[s] \in DOMAIN rooms
    /\ s \in DOMAIN rooms[playerToRoom[s]].players
    /\ rooms[playerToRoom[s]].players[s].buzzTime # NULL

\* C5: a pressBuzzer from a contestant whose buzzTime is already set changes
\* nothing and emits no event.
RepeatedPressDiscarded ==
    [][\A s \in Sockets :
        (AlreadyBuzzed(s) /\ PressBuzzer(s)) =>
            /\ UNCHANGED <<rooms, playerToRoom, joined, now, presses>>
            /\ out' = <<>>]_vars

RepeatedPressSeen ==
    /\ out = <<>>
    /\ \E s \in connected :
        /\ AlreadyBuzzed(s)
        /\ rooms[playerToRoom[s]].isActive

\* The last handler announced position 1 for contestant s.
FirstAnnounced(s) ==
    /\ Announced
    /\ out[1].data.player.id = s
    /\ out[1].data.position = 1

\* C6: two distinct contestants of a room press one right after the other in
\* an Active round with empty arrivals before; the first is announced
\* position 1, the second position 2, and buzzOrder lists them in that order.
TwoPressesRanked ==
    [][\A s1, s2 \in Sockets :
        ( /\ s1 # s2
          /\ FirstAnnounced(s1)
          /\ out[2].data.code \in DOMAIN rooms
          /\ s2 \in DOMAIN rooms[out[2].data.code].players
          /\ s2 \in DOMAIN playerToRoom
          /\ playerToRoom[s2] = out[2].data.code
          /\ PressBuzzer(s2) )
        => /\ Announced'
           /\ out'[1].data.player.id = s2
           /\ out'[1].data.position = 2
           /\ rooms'[out[2].data.code].buzzOrder = <<s1, s2>>]_vars

TwoPressesSeen ==
    /\ Announced
    /\ out[1].data.position = 2
    /\ \E c \in DOMAIN rooms :
        /\ c = out[2].data.code
        /\ Len(rooms[c].buzzOrder) = 2
        /\ rooms[c].buzzOrder[1] # rooms[c].buzzOrder[2]
        /\ rooms[c].buzzOrder[2] = out[1].data.player.id

\* C7: a startRound by the room's host leaves the room Active with
\* roundStartTime the instant read, buzzOrder empty and every buzzTime null;
\* the contestant set, the names and hostId are as before.
StartRoundFresh ==
    [][\A s \in Sockets :
        (IsHostCall(s) /\ StartRound(s)) =>
            LET old == rooms[playerToRoom[s]]
                new == rooms'[playerToRoom[s]]
            IN  /\ new.isActive
                /\ new.roundStartTime = now'
                /\ now' >= now
                /\ new.buzzOrder = <<>>
                /\ DOMAIN new.players = DOMAIN old.players
                /\ \A id \in DOMAIN old.players :
                    /\ new.players[id].buzzTime = NULL
                    /\ new.players[id].name = old.players[id].name
                /\ new.hostId = old.hostId]_vars

StartRoundSeen ==
    /\ Len(out) = 2
    /\ out[1].ev = "roundStarted"
    /\ out[1].data.startTime > 1
    /\ \E c \in DOMAIN rooms :
        /\ c = out[2].data.code
        /\ Cardinality(DOMAIN rooms[c].players) >= 2

\* C8: when the connection recorded as a room's hostId is lost, the room
\* leaves the registry in that step.
HostLossDestroysRoom ==
    [][\A s \in Sockets : \A c \in DOMAIN rooms :
        (rooms[c].hostId = s /\ s \in connected /\ s \notin connected')
            => c \notin DOMAIN rooms']_vars

\* C9: while a code is free, a createRoom that has entered its retry loop
\* leaves it, installs the room and sends roomCreated to the caller.
CreateRoomTerminates ==
    (gen.pc = "loop" /\ Cardinality(DOMAIN rooms) < Cardinality(Codes))
        ~> ( /\ gen.pc = "idle"
             /\ Len(out) = 1
             /\ out[1].ev = "roomCreated"
             /\ out[1].to = {gen.sock}
             /\ out[1].data.roomCode \in DOMAIN rooms )

CreateRoomRetried ==
    /\ gen.pc = "idle"
    /\ gen.collided
    /\ Len(out) = 1
    /\ out[1].ev = "roomCreated"
    /\ out[1].data.roomCode = gen.code

UniqueCodes ==
    \A c1, c2 \in DOMAIN rooms :
        /\ rooms[c1].code = c1
        /\ rooms[c1].code = rooms[c2].code => c1 = c2

\* C10: createRoom installs a room under a code no live room had, with the
\* caller as hostId, no players, empty buzzOrder, not active and no
\* roundStartTime; every room live before is unchanged; live rooms never share
\* a code.
CreateRoomFresh ==
    /\ [][\A s \in Sockets :
            CreateRoom(s) =>
                \E c \in Codes \ DOMAIN rooms :
                    /\ DOMAIN rooms' = (DOMAIN rooms) \cup {c}
                    /\ rooms'[c].code = c
                    /\ rooms'[c].hostId = s
                    /\ DOMAIN rooms'[c].players = {}
                    /\ rooms'[c].buzzOrder = <<>>
                    /\ ~rooms'[c].isActive
                    /\ rooms'[c].roundStartTime = NULL
                    /\ \A o \in DOMAIN rooms : rooms'[o] = rooms[o]]_vars
    /\ []UniqueCodes

CreateRoomBesideLive ==
    /\ Len(out) = 1
    /\ out[1].ev = "roomCreated"
    /\ Cardinality(DOMAIN rooms) = 2
    /\ \E o \in DOMAIN rooms :
        /\ o # out[1].data.roomCode
        /\ DOMAIN rooms[o].players # {}

\* C11: every identifier in a room's buzzOrder is a key of its players, so
\* the snapshot's resolved buzzOrder is as long as buzzOrder.
ArrivalsArePlayers ==
    \A c \in DOMAIN rooms :
        /\ Range(rooms[c].buzzOrder) \subseteq DOMAIN rooms[c].players
        /\ Len(getRoomState(rooms[c]).buzzOrder) = Len(rooms[c].buzzOrder)

ArrivalLeftBehind ==
    /\ Len(out) = 2
    /\ out[1].ev = "playerLeft"
    /\ \E c \in DOMAIN rooms :
        /\ c = out[2].data.code
        /\ presses[c] > Len(rooms[c].buzzOrder)
        /\ rooms[c].buzzOrder # <<>>

\* C12: a room's buzzOrder is never longer than its number of players.
ArrivalsWithinPlayers ==
    \A c \in DOMAIN rooms :
        Len(rooms[c].buzzOrder) <= Cardinality(DOMAIN rooms[c].players)

\* The caller is bound to a live room that is not active, or of which it is
\* no player.
PressOutOfRound(s) ==
    /\ s \in DOMAIN playerToRoom
    /\ playerToRoom[s] \in DOMAIN rooms
    /\ \/ ~rooms[playerToRoom[s]].isActive
       \/ s \notin DOMAIN rooms[playerToRoom[s]].players

\* C13: a pressBuzzer whose caller's room is not active, or whose caller is
\* not a player of the room it is bound to, changes nothing and emits nothing.
PressOutOfRoundDropped ==
    [][\A s \in Sockets :
        (PressOutOfRound(s) /\ PressBuzzer(s)) =>
            /\ UNCHANGED <<rooms, playerToRoom, joined, now, presses>>
            /\ out' = <<>>]_vars

PressAfterStopSeen ==
    /\ out = <<>>
    /\ \E s \in connected :
        /\ PressOutOfRound(s)
        /\ s \in DOMAIN rooms[playerToRoom[s]].players
        /\ rooms[playerToRoom[s]].players[s].buzzTime = NULL
        /\ rooms[playerToRoom[s]].roundStartTime # NULL
        /\ rooms[playerToRoom[s]].buzzOrder # <<>>

\* C14: an accepted pressBuzzer appends the caller's identifier to the end
\* of buzzOrder, sets the caller's buzzTime to the instant read minus
\* roundStartTime, announces the new length of buzzOrder as position, and
\* leaves isActive, roundStartTime, hostId and every other player unchanged.
AcceptedPressEffect ==
    [][\A s \in Sockets :
        (Accepts(s) /\ PressBuzzer(s)) =>
            LET old == rooms[playerToRoom[s]]
                new == rooms'[playerToRoom[s]]
            IN  /\ new.buzzOrder = Append(old.buzzOrder, s)
                /\ DOMAIN new.players = DOMAIN old.players
                /\ new.players[s].buzzTime = now' - old.roundStartTime
                /\ new.players[s].name = old.players[s].name
                /\ \A id \in DOMAIN old.players \ {s} :
                    new.players[id] = old.players[id]
                /\ Announced'
                /\ out'[1].data.player = new.players[s]
                /\ out'[1].data.position = Len(new.buzzOrder)
                /\ new.isActive = old.isActive
                /\ new.roundStartTime = old.roundStartTime
                /\ new.hostId = old.hostId
                /\ playerToRoom' = playerToRoom]_vars

LatePressSeen ==
    /\ Announced
    /\ out[1].data.position = 2
    /\ out[1].data.player.buzzTime = 1
    /\ \E c \in DOMAIN rooms :
        /\ c = out[2].data.code
        /\ rooms[c].players[rooms[c].buzzOrder[1]].buzzTime = 0

\* C15: a buzzTime that is set keeps its value across every step that is not
\* a startRound or resetRound of the room, while its player stays in the room.
ElapsedKept ==
    [][\A c \in (DOMAIN rooms) \cap (DOMAIN rooms') :
        \A id \in (DOMAIN rooms[c].players) \cap (DOMAIN rooms'[c].players) :
            (rooms[c].players[id].buzzTime # NULL /\ ~StartedOrReset(c)') =>
                rooms'[c].players[id].buzzTime = rooms[c].players[id].buzzTime]_vars

\* C16: a stopRound by the host of an Active room sets isActive false, keeps
\* roundStartTime non-null and leaves buzzOrder, the players, their buzzTimes
\* and hostId unchanged; no pressBuzzer is accepted in the room until a
\* startRound makes it Active again.
StopRoundEffect ==
    /\ [][\A s \in Sockets :
            (IsHostCall(s) /\ rooms[playerToRoom[s]].isActive /\ StopRound(s)) =>
                LET old == rooms[playerToRoom[s]]
                    new == rooms'[playerToRoom[s]]
                IN  /\ ~new.isActive
                    /\ new.roundStartTime # NULL
                    /\ new.roundStartTime = old.roundStartTime
                    /\ new.buzzOrder = old.buzzOrder
                    /\ new.players = old.players
                    /\ new.hostId = old.hostId]_vars
    /\ [][\A c \in (DOMAIN rooms) \cap (DOMAIN rooms') :
            (~rooms[c].isActive /\ rooms'[c].isActive) =>
                /\ Len(out') = 2
                /\ out'[1].ev = "roundStarted"
                /\ out'[2].data.code = c]_vars
    /\ [][\A x \in Sockets :
            ( /\ x \in DOMAIN playerToRoom
              /\ playerToRoom[x] \in DOMAIN rooms
              /\ ~rooms[playerToRoom[x]].isActive
              /\ PressBuzzer(x) )
            => (rooms' = rooms /\ out' = <<>>)]_vars

StopRoundSeen ==
    /\ Len(out) = 2
    /\ out[1].ev = "roundStopped"
    /\ \E c \in DOMAIN rooms :
        /\ c = out[2].data.code
        /\ ~rooms[c].isActive
        /\ rooms[c].roundStartTime # NULL
        /\ Len(rooms[c].buzzOrder) >= 1
        /\ \E id \in DOMAIN rooms[c].players : rooms[c].players[id].buzzTime = NULL

\* C17: a resetRound by the room's host, from any status, leaves isActive
\* false, roundStartTime null, buzzOrder empty and every buzzTime null; the
\* player set, the names and hostId are as before.
ResetRoundEffect ==
    [][\A s \in Sockets :
        (IsHostCall(s) /\ ResetRound(s)) =>
            LET old == rooms[playerToRoom[s]]
                new == rooms'[playerToRoom[s]]
            IN  /\ ~new.isActive
                /\ new.roundStartTime = NULL
                /\ new.buzzOrder = <<>>
                /\ DOMAIN new.players = DOMAIN old.players
                /\ \A id \in DOMAIN old.players :
                    /\ new.players[id].buzzTime = NULL
                    /\ new.players[id].name = old.players[id].name
                /\ new.hostId = old.hostId]_vars

ResetRoundSeen ==
    /\ Len(out) = 2
    /\ out[1].ev = "roundReset"
    /\ now > 1
    /\ \E c \in DOMAIN rooms :
        /\ c = out[2].data.code
        /\ Cardinality(DOMAIN rooms[c].players) >= 2

\* C18: an Active room has a roundStartTime, and roundStartTime goes from
\* non-null to null only in a resetRound step of the room.
RoundStartKept ==
    /\ [](\A c \in DOMAIN rooms :
            rooms[c].isActive => rooms[c].roundStartTime # NULL)
    /\ [][\A c \in (DOMAIN rooms) \cap (DOMAIN rooms') :
            (rooms[c].roundStartTime # NULL /\ rooms'[c].roundStartTime = NULL) =>
                /\ Len(out') = 2
                /\ out'[1].ev = "roundReset"
                /\ out'[2].data.code = c]_vars

RoundStartAfterLeave ==
    /\ Len(out) = 2
    /\ out[1].ev = "playerLeft"
    /\ \E c \in DOMAIN rooms :
        /\ c = out[2].data.code
        /\ ~rooms[c].isActive
        /\ rooms[c].roundStartTime # NULL

\* The caller is not the hostId of a live room it is bound to.
NotHost(s) ==
    \/ s \notin DOMAIN playerToRoom
    \/ playerToRoom[s] \notin DOMAIN rooms
    \/ rooms[playerToRoom[s]].hostId # s

\* C19: startRound, stopRound and resetRound from a connection that is not
\* the room's hostId change nothing and emit nothing.
NonHostRoundCommandDropped ==
    [][\A s \in Sockets :
        (NotHost(s) /\ (StartRound(s) \/ StopRound(s) \/ ResetRound(s))) =>
            /\ UNCHANGED <<rooms, playerToRoom, joined, now, presses>>
            /\ out' = <<>>]_vars

FormerHostDropped ==
    /\ out = <<>>
    /\ \E s \in connected :
        /\ s \in DOMAIN playerToRoom
        /\ playerToRoom[s] \in DOMAIN rooms
        /\ rooms[playerToRoom[s]].hostId # s
        /\ s \notin DOMAIN rooms[playerToRoom[s]].players
        /\ rooms[playerToRoom[s]].isActive

\* C20: a joinAsHost naming a live room sets its hostId to the caller and
\* leaves its players, buzzTimes, buzzOrder, isActive and roundStartTime as
\* they were.  (Such a step always answers hostJoined, and no other step does.)
JoinAsHostEffect ==
    [][(Len(out') = 1 /\ out'[1].ev = "hostJoined") =>
        \A s \in Sockets : \A rc \in InputCodes :
            (ToUpperCase(rc) \in DOMAIN rooms /\ JoinAsHost(s, rc)) =>
                LET old == rooms[ToUpperCase(rc)]
                    new == rooms'[ToUpperCase(rc)]
                IN  /\ new.hostId = s
                    /\ new.players = old.players
                    /\ new.buzzOrder = old.buzzOrder
                    /\ new.isActive = old.isActive
                    /\ new.roundStartTime = old.roundStartTime
                    /\ new.code = old.code]_vars

HostReplacedMidRound ==
    /\ Len(out) = 1
    /\ out[1].ev = "hostJoined"
    /\ \E c \in DOMAIN rooms :
        /\ c = out[1].data.roomCode
        /\ out[1].to = {rooms[c].hostId}
        /\ rooms[c].isActive
        /\ rooms[c].buzzOrder # <<>>
        /\ rooms[c].hostId \notin DOMAIN rooms[c].players

\* C21: a joinRoom or joinAsHost naming a code that no live room has sends
\* the error 'Room not found' to the caller alone and changes no room and no
\* binding.
UnknownCodeRejected ==
    [][\A s \in Sockets, rc \in InputCodes :
        (/\ ToUpperCase(rc) \notin DOMAIN rooms
         /\ (JoinAsHost(s, rc) \/ JoinRoom(s, rc, "Mona"))) =>
            /\ out' = <<[ev |-> "error", to |-> {s},
                         data |-> [message |-> "Room not found"]]>>
            /\ UNCHANGED <<rooms, playerToRoom, joined>>]_vars

\* A connection bound to a live room was just told that another code is
\* unknown.
UnknownCodeSeen ==
    \E s \in Sockets :
        /\ out = <<[ev |-> "error", to |-> {s},
                    data |-> [message |-> "Room not found"]]>>
        /\ s \in DOMAIN playerToRoom
        /\ playerToRoom[s] \in DOMAIN rooms
        /\ Cardinality(DOMAIN rooms) = 1

\* String.prototype.trim on a name: spaces at both ends are removed.
RECURSIVE TrimLeft(_)
TrimLeft(n) == IF n # <<>> /\ Head(n) = " " THEN TrimLeft(Tail(n)) ELSE n

RECURSIVE TrimRight(_)
TrimRight(n) ==
    IF n # <<>> /\ n[Len(n)] = " " THEN TrimRight(SubSeq(n, 1, Len(n) - 1)) ELSE n

Trim(n) == TrimRight(TrimLeft(n))

\* A display name of 1 to MaxNameLen characters once trimmed.
ValidName(n) == Len(Trim(n)) \in 1..MaxNameLen

\* C22: a joinRoom whose display name is empty after trimming, or longer than
\* 20 characters, is answered by an error to the caller: no contestant is added
\* or updated and no playerJoined or roomState is broadcast.
InvalidNameRejected ==
    [][\A s \in Sockets, n \in NameInputs :
        (~ValidName(n) /\ "A" \in DOMAIN rooms /\ JoinRoom(s, "A", n)) =>
            /\ rooms' = rooms
            /\ Len(out') = 1
            /\ out'[1].ev = "error"
            /\ out'[1].to = {s}]_vars

\* C23: no connection is the hostId of one room and the hostId or a player of
\* another room, nor a player of two rooms.
OneRoomPerConnection ==
    \A s \in Sockets, c1 \in DOMAIN rooms, c2 \in DOMAIN rooms :
        c1 # c2 =>
            /\ ~(/\ rooms[c1].hostId = s
                 /\ (rooms[c2].hostId = s \/ s \in DOMAIN rooms[c2].players))
            /\ ~(s \in DOMAIN rooms[c1].players /\ s \in DOMAIN rooms[c2].players)

\* C24: in the step that deletes a room, playerToRoom stops mapping any
\* connection to that room's code.
DestroyedRoomUnbound ==
    [][\A c \in DOMAIN rooms :
        c \notin DOMAIN rooms' =>
            \A s \in DOMAIN playerToRoom' : playerToRoom'[s] # c]_vars

\* C25: when a connection that hosts no room is lost, every room that had it
\* as a player stays, no longer has it among its players or in its buzzOrder,
\* and is sent a roomState of what it has become.
LostContestantLeavesEveryRoom ==
    [][\A s \in connected \ connected' :
        (\A h \in DOMAIN rooms : rooms[h].hostId # s) =>
            \A c \in DOMAIN rooms :
                s \in DOMAIN rooms[c].players =>
                    /\ c \in DOMAIN rooms'
                    /\ s \notin DOMAIN rooms'[c].players
                    /\ s \notin Range(rooms'[c].buzzOrder)
                    /\ \E i \in 1..Len(out') :
                        /\ out'[i].ev = "roomState"
                        /\ out'[i].data = getRoomState(rooms'[c])
                        /\ out'[i].to = Members(joined', connected', c)]_vars

\* C26: every step that changes a room emits a roomState of the room as the
\* step leaves it, addressed to every connected hostId and player of the room.
ChangeBroadcastsRoomState ==
    [][\A c \in DOMAIN rooms \cap DOMAIN rooms' :
        rooms'[c] # rooms[c] =>
            \E i \in 1..Len(out') :
                /\ out'[i].ev = "roomState"
                /\ out'[i].data = getRoomState(rooms'[c])
                /\ (({rooms'[c].hostId} \cup DOMAIN rooms'[c].players)
                        \cap connected') \subseteq out'[i].to]_vars

\* The step is a command of s that the server rejects or drops: a join
\* naming an unknown code, a round command of a connection that is not the
\* host of a room it is bound to, or a press that is not accepted (unbound,
\* not a player, outside a round, repeated).
Rejected(s) ==
    \/ NotHost(s) /\ (StartRound(s) \/ StopRound(s) \/ ResetRound(s))
    \/ ~Accepts(s) /\ PressBuzzer(s)
    \/ \E rc \in {"A", "a"} :
        /\ ToUpperCase(rc) \notin DOMAIN rooms
        /\ (JoinAsHost(s, rc) \/ JoinRoom(s, rc, "Mona"))

\* C27: a rejected or dropped command delivers no event to any connection
\* other than its issuer; said the other way round, a step that delivers an
\* event to somebody other than s is not a rejected command of s.
RejectedCommandPrivate ==
    [][\A s \in Sockets :
        (\E i \in 1..Len(out') : ~(out'[i].to \subseteq {s})) => ~Rejected(s)]_vars

\* With the room gone and others still connected, a join was just answered
\* 'Room not found', to its issuer alone.
RejectedJoinSeen ==
    \E s \in Sockets :
        /\ out = <<[ev |-> "error", to |-> {s},
                    data |-> [message |-> "Room not found"]]>>
        /\ rooms = EmptyMap
        /\ playerToRoom # EmptyMap
        /\ Cardinality(connected) >= 2

\* C28: a room that is active before a step and still live but not active
\* after it has just been stopped or reset by its host: the step is a
\* stopRound or a resetRound of the connection that is its hostId and is bound
\* to it.
ActiveLeftByHostOnly ==
    [][\A c \in DOMAIN rooms \cap DOMAIN rooms' :
        (rooms[c].isActive /\ ~rooms'[c].isActive) =>
            \E s \in Sockets :
                /\ rooms[c].hostId = s
                /\ s \in DOMAIN playerToRoom
                /\ playerToRoom[s] = c
                /\ (StopRound(s) \/ ResetRound(s))]_vars

\* A player who is not the host was just sent the state it asked for, and
\* the round goes on.
ActiveAfterQuery ==
    \E s \in Sockets, c \in DOMAIN rooms :
        /\ rooms[c].isActive
        /\ rooms[c].hostId # s
        /\ s \in DOMAIN rooms[c].players
        /\ out = <<[ev |-> "roomState", to |-> {s}, data |-> getRoomState(rooms[c])]>>

\* C29: a joinRoom for a room by a connection that is already a player of it,
\* under the name it has, leaves the room as it was: players and their
\* buzzTime, buzzOrder, isActive and roundStartTime.
RejoinLeavesRoom ==
    [][\A s \in Sockets, c \in DOMAIN rooms :
        (/\ s \in DOMAIN rooms[c].players
         /\ JoinRoom(s, c, rooms[c].players[s].name)) =>
            rooms'[c] = rooms[c]]_vars

\* C30: a startRound by the host of a room that is already active leaves the
\* room's roundStartTime, buzzOrder and every player's buzzTime as they were.
StartRoundKeepsActive ==
    [][\A s \in Sockets :
        (/\ s \in DOMAIN playerToRoom
         /\ playerToRoom[s] \in DOMAIN rooms
         /\ rooms[playerToRoom[s]].hostId = s
         /\ rooms[playerToRoom[s]].isActive
         /\ StartRound(s)) =>
            LET c == playerToRoom[s] IN
            /\ rooms'[c].roundStartTime = rooms[c].roundStartTime
            /\ rooms'[c].buzzOrder = rooms[c].buzzOrder
            /\ rooms'[c].players = rooms[c].players]_vars

\* C31: in every reachable state a room's hostId is not a key of that room's
\* players.
HostIsNoPlayer ==
    \A c \in DOMAIN rooms : rooms[c].hostId \notin DOMAIN rooms[c].players

\* C32: every roomState event, broadcast or sent in answer to getRoomState, goes
\* only to connections that are, once the step is done, the hostId or a player
\* of the room whose code it carries.
RoomStateToMembersOnly ==
    [][\A i \in 1..Len(out') :
        out'[i].ev = "roomState" =>
            LET c == out'[i].data.code IN
            /\ c \in DOMAIN rooms'
            /\ out'[i].to \subseteq
                    ({rooms'[c].hostId} \cup DOMAIN rooms'[c].players)]_vars

\* C33: in every reachable state the hostId of every live room is bound to that
\* room in playerToRoom.
HostBoundToItsRoom ==
    \A c \in DOMAIN rooms :
        /\ rooms[c].hostId \in DOMAIN playerToRoom
        /\ playerToRoom[rooms[c].hostId] = c

\* C34: the step in which a connection is lost leaves playerToRoom without an
\* entry for it.
LostConnectionUnbound ==
    [][\A s \in connected \ connected' : s \notin DOMAIN playerToRoom']_vars

FirstJoinAddsOnePlayer ==
    [][\A s \in Sockets, c \in DOMAIN rooms :
        (s \notin DOMAIN rooms[c].players /\ JoinRoom(s, c, "Mona")) =>
            /\ c \in DOMAIN rooms'
            /\ DOMAIN rooms'[c].players = DOMAIN rooms[c].players \cup {s}
            /\ rooms'[c].players[s] = [id |-> s, name |-> "Mona", buzzTime |-> NULL]
            /\ \A p \in DOMAIN rooms[c].players :
                    rooms'[c].players[p] = rooms[c].players[p]
            /\ rooms'[c].isActive = rooms[c].isActive
            /\ rooms'[c].roundStartTime = rooms[c].roundStartTime
            /\ rooms'[c].buzzOrder = rooms[c].buzzOrder
            /\ rooms'[c].hostId = rooms[c].hostId]_vars

\* A connection has just joined a running round in which another player is
\* already ranked.
MidRoundJoinSeen ==
    \E s \in Sockets, c \in DOMAIN rooms :
        /\ Len(out) = 3
        /\ out[1].ev = "roomJoined"
        /\ out[1].to = {s}
        /\ rooms[c].isActive
        /\ Len(rooms[c].buzzOrder) = 1
        /\ rooms[c].buzzOrder[1] # s
        /\ rooms[c].players[rooms[c].buzzOrder[1]].buzzTime # NULL
        /\ rooms[c].players[s].buzzTime = NULL

\* The codes whose room the step creates, deletes or changes.
ChangedRooms ==
    {c \in DOMAIN rooms \cup DOMAIN rooms' :
        \/ c \notin DOMAIN rooms
        \/ c \notin DOMAIN rooms'
        \/ rooms'[c] # rooms[c]}

\* The room a command of s without a code is about: the one s is bound to.
BoundRoom(s) == IF s \in DOMAIN playerToRoom THEN {playerToRoom[s]} ELSE {}

\* C37: a joinRoom or joinAsHost changes no room but the one it names, and a
\* startRound, stopRound, resetRound, pressBuzzer or disconnect changes no room
\* but the one its caller is bound to; every other live room stays as it is.
RoomsIsolated ==
    [][ChangedRooms # {} =>
        \A s \in Sockets :
            /\ \A rc \in Codes :
                    (JoinRoom(s, rc, "Mona") \/ JoinAsHost(s, rc)) =>
                        ChangedRooms \subseteq {rc}
            /\ (\/ StartRound(s) \/ StopRound(s) \/ ResetRound(s)
                \/ PressBuzzer(s) \/ Disconnect(s)) =>
                        ChangedRooms \subseteq BoundRoom(s)]_vars

\* Two live rooms share the player s3: its press has just been ranked in the
\* running round of room A while room B, idle, holds it unranked.
PressBesideOtherRoom ==
    /\ DOMAIN rooms = {"A", "B"}
    /\ rooms["A"].isActive
    /\ rooms["A"].buzzOrder = <<"s3">>
    /\ ~rooms["B"].isActive
    /\ "s3" \in DOMAIN rooms["B"].players
    /\ rooms["B"].players["s3"].buzzTime = NULL
    /\ Len(out) = 2
    /\ out[1].ev = "buzzerPressed"

\* C38: in every reachable state the buzzTime values of the players listed in
\* a room's buzzOrder are numbers not below zero and never decrease along the
\* order.
ElapsedOrdered ==
    \A c \in DOMAIN rooms :
        LET order == rooms[c].buzzOrder
            time(i) == rooms[c].players[order[i]].buzzTime
        IN  \A i \in 1..Len(order) :
                order[i] \in DOMAIN rooms[c].players =>
                    /\ time(i) # NULL
                    /\ time(i) >= 0
                    /\ \A j \in i..Len(order) :
                            order[j] \in DOMAIN rooms[c].players => time(i) <= time(j)

\* C39: when an event delivered to a player that is not the host makes its
\* play page, opened under the name it joined with, set hasBuzzed with
\* myPosition p, that player's own id stands at rank p of the room's buzzOrder.
ClientMarksOwnPress ==
    [][\A c \in DOMAIN rooms', i \in 1..Len(out') :
        \A s \in out'[i].to \cap DOMAIN rooms'[c].players :
            LET after == Receive(ClientInit, out'[i], rooms'[c].players[s].name)
            IN  (s # rooms'[c].hostId /\ after.hasBuzzed) =>
                    /\ after.myPosition \in 1..Len(rooms'[c].buzzOrder)
                    /\ rooms'[c].buzzOrder[after.myPosition] = s]_vars

====
